---------------------------- MODULE Spec2Model ----------------------------
(***************************************************************************)
(* Model of the iscc-nbs-colors validation tool: the Munsell hue notation  *)
(* (src/src/munsell.rs), the circular angle helpers (src/src/degree.rs),   *)
(* the partition validator validate_blocks and the mean colour engine      *)
(* get_mean_colors (src/src/main.rs).                                      *)
(*                                                                         *)
(* Texts are sequences of one-character strings, so that the regular       *)
(* expression and the number parser work on them character by character.   *)
(* f32 values are exact rationals <<n, d>> with d > 0, extended with the    *)
(* IEEE non-finite values: NaN = <<0, 0>>, +inf = <<1, 0>>, -inf = <<-1, 0>>.*)
(* Rounding of f32 arithmetic is not modelled.                             *)
(***************************************************************************)
EXTENDS Integers, Sequences, FiniteSets, TLC

VARIABLES
    \* ---- MunsellHue::from_str / Display, applied to one notation ----
    huespec,        \* the text handed to MunsellHue::from_str
    hue,            \* the MunsellHue it returns (a rational)
    shown,          \* the text Display renders for it
    hpc,            \* "input", "parsed", "shown" or "panic"
    \* ---- degree_average and degree_diff, applied to one pair of angles ----
    f1,             \* first angle, in degrees
    f2,             \* second angle, in degrees
    average,        \* what degree_average returns for them
    diff,           \* what degree_diff returns for them
    dpc,            \* "input", "averaged" or "diffed"
    \* ---- main(): validate_blocks, then get_mean_colors ----
    hues,           \* axis list of hue labels (cyclic)
    chromas,        \* axis list of chroma labels, the last one the sentinel
    values,         \* axis list of value labels, the last one the sentinel
    pc,             \* position of main() in the two passes
    lookup_table,   \* occupancy table, offset i stored at i + 1
    owner,          \* history: per offset, the ordinals of the declarations that wrote it
    decls,          \* history: the declarations read so far, in document order
    blocks,         \* Vec<ColorBlock> built by validate_blocks
    err,            \* the error printed before exit(1)
    acc,            \* Vec<ColorAccumulator> of get_mean_colors
    bi,             \* number of blocks already accumulated
    rgbout,         \* colours collected so far, one per finalized bucket
    lch,            \* colour of the bucket in the gamut-reduction loop
    rgb             \* its conversion, tested by the loop

hvars == <<huespec, hue, shown, hpc>>
dvars == <<f1, f2, average, diff, dpc>>
mvars == <<hues, chromas, values, pc, lookup_table, owner, decls, blocks, err,
           acc, bi, rgbout, lch, rgb>>
vars == <<hvars, dvars, mvars>>

\* the hue before from_str has returned
NoHue == <<>>

\* no error printed; no colour in the gamut-reduction loop
NoError == [kind |-> "none", color |-> 0, over |-> 0, h |-> <<>>, c |-> <<>>, v |-> <<>>]
NoColor == [l |-> <<0, 0>>, chroma |-> <<0, 0>>, hue |-> <<0, 0>>, bucket |-> 0]

-----------------------------------------------------------------------------
(* Bounds of the model *)

\* longest numeric prefix of a hue notation drawn as input
MaxNumLen == 3

-----------------------------------------------------------------------------
(* f32 arithmetic *)

Abs(n) == IF n < 0 THEN -n ELSE n

Sign(n) == IF n < 0 THEN -1 ELSE IF n = 0 THEN 0 ELSE 1

RECURSIVE GCD(_, _)
GCD(a, b) ==
    IF b = 0 THEN a
    ELSE CHOOSE g \in {GCD(m, r) : m \in {b}, r \in {a % b}} : TRUE

\* the value n / d in lowest terms; d = 0 gives NaN (n = 0) or an infinity
Norm(n, d) ==
    IF d = 0 THEN <<Sign(n), 0>>
    ELSE LET g == GCD(Abs(n), Abs(d))
         IN  <<Sign(d) * (n \div g), Abs(d) \div g>>

NaN == <<0, 0>>

R(n) == <<n, 1>>

IsNaN(x) == x = NaN

IsFinite(x) == x[2] # 0

RNeg(x) == <<-x[1], x[2]>>

RAdd(x, y) ==
    IF IsNaN(x) \/ IsNaN(y) THEN NaN
    ELSE IF ~IsFinite(x) /\ ~IsFinite(y) THEN (IF x = y THEN x ELSE NaN)
    ELSE IF ~IsFinite(x) THEN x
    ELSE IF ~IsFinite(y) THEN y
    ELSE LET g == GCD(x[2], y[2])
         IN  Norm(x[1] * (y[2] \div g) + y[1] * (x[2] \div g), (x[2] \div g) * y[2])

RSub(x, y) == RAdd(x, RNeg(y))

\* inf * 0 and anything with NaN come out as <<0, 0>>
RMul(x, y) ==
    LET g1 == GCD(Abs(x[1]), y[2])
        g2 == GCD(Abs(y[1]), x[2])
        a  == IF g1 = 0 THEN x[1] ELSE x[1] \div g1
        d  == IF g1 = 0 THEN y[2] ELSE y[2] \div g1
        b  == IF g2 = 0 THEN y[1] ELSE y[1] \div g2
        c  == IF g2 = 0 THEN x[2] ELSE x[2] \div g2
    IN  Norm(a * b, c * d)

\* x / 0 is NaN for x = 0 and an infinity otherwise; x / inf is 0
RDiv(x, y) ==
    RMul(x, IF y[1] = 0 THEN (IF y[2] = 0 THEN NaN ELSE <<1, 0>>)
            ELSE <<Sign(y[1]) * y[2], Abs(y[1])>>)

\* comparisons with NaN are false
RLe(x, y) ==
    /\ ~IsNaN(x)
    /\ ~IsNaN(y)
    /\ IF ~IsFinite(x) /\ ~IsFinite(y) THEN x[1] <= y[1]
       ELSE x[1] * y[2] <= y[1] * x[2]

RLt(x, y) == RLe(x, y) /\ x # y

\* f32::min
RMin(x, y) == IF IsNaN(x) THEN y ELSE IF IsNaN(y) THEN x ELSE IF RLe(x, y) THEN x ELSE y

RFloor(x) == x[1] \div x[2]

\* rounding toward zero
RTrunc(x) == IF x[1] >= 0 THEN x[1] \div x[2] ELSE -((-x[1]) \div x[2])

\* the % operator on f32: the remainder has the sign of the dividend
RRem(x, m) ==
    IF ~IsFinite(x) \/ IsNaN(m) \/ m = R(0) THEN NaN
    ELSE IF ~IsFinite(m) THEN x
    ELSE RSub(x, RMul(R(RTrunc(RDiv(x, m))), m))

\* `as usize`: NaN and negative values become 0
AsUsize(x) == IF IsNaN(x) \/ RLt(x, R(0)) THEN 0 ELSE RTrunc(x)

-----------------------------------------------------------------------------
(* Texts *)

Digits == <<"0", "1", "2", "3", "4", "5", "6", "7", "8", "9">>

IsDigit(c) == \E i \in 1..10 : Digits[i] = c

DigitVal(c) == (CHOOSE i \in 1..10 : Digits[i] = c) - 1

RECURSIVE Pow10(_)
Pow10(k) == IF k = 0 THEN 1 ELSE 10 * Pow10(k - 1)

RECURSIVE DigitsToNat(_)
DigitsToNat(t) ==
    IF t = <<>> THEN 0
    ELSE 10 * DigitsToNat(SubSeq(t, 1, Len(t) - 1)) + DigitVal(t[Len(t)])

RECURSIVE NatToText(_)
NatToText(n) ==
    IF n < 10 THEN <<Digits[n + 1]>>
    ELSE NatToText(n \div 10) \o <<Digits[(n % 10) + 1]>>

IsPrefix(p, t) == Len(p) <= Len(t) /\ SubSeq(t, 1, Len(p)) = p

\* position of the decimal point, 0 when there is none
DotAt(t) == IF \E i \in 1..Len(t) : t[i] = "."
            THEN CHOOSE i \in 1..Len(t) : t[i] = "." ELSE 0

\* number of digits written after the decimal point
Decimals(t) == IF DotAt(t) = 0 THEN 0 ELSE Len(t) - DotAt(t)

INF == <<"I", "N", "F">>

\* str::parse::<f32> on a decimal text or on the sentinel
ParseF32(t) ==
    IF t = INF THEN <<1, 0>>
    ELSE LET dot  == DotAt(t)
             int  == IF dot = 0 THEN t ELSE SubSeq(t, 1, dot - 1)
             frac == IF dot = 0 THEN <<>> ELSE SubSeq(t, dot + 1, Len(t))
         IN  Norm(DigitsToNat(int) * Pow10(Len(frac)) + DigitsToNat(frac),
                  Pow10(Len(frac)))

\* "{:1.2}": two decimals, rounded to the nearest hundredth
FormatF2(x) ==
    IF IsNaN(x) THEN <<"N", "a", "N">>
    ELSE IF ~IsFinite(x) THEN (IF x[1] < 0 THEN <<"-">> ELSE <<>>) \o <<"i", "n", "f">>
    ELSE LET cents == RFloor(RAdd(RMul(<<Abs(x[1]), x[2]>>, R(100)), <<1, 2>>))
         IN  (IF x[1] < 0 /\ cents > 0 THEN <<"-">> ELSE <<>>)
             \o NatToText(cents \div 100)
             \o <<".">>
             \o <<Digits[((cents \div 10) % 10) + 1], Digits[(cents % 10) + 1]>>

-----------------------------------------------------------------------------
(* Hue model, src/src/munsell.rs *)

LETTER_CODES == << <<"R">>, <<"Y", "R">>, <<"Y">>, <<"G", "Y">>, <<"G">>,
                   <<"B", "G">>, <<"B">>, <<"P", "B">>, <<"P">>, <<"R", "P">> >>

\* the alternatives of the second group of RE, in the order of the pattern
RE_ALTERNATIVES == << <<"R">>, <<"Y", "R">>, <<"Y">>, <<"G", "Y">>, <<"G">>,
                      <<"B", "G">>, <<"B">>, <<"P", "B">>, <<"P">>, <<"R", "P">> >>

\* length of the longest prefix made of digits and decimal points
RECURSIVE NumberEnd(_)
NumberEnd(t) ==
    IF t # <<>> /\ (IsDigit(t[1]) \/ t[1] = ".") THEN 1 + NumberEnd(Tail(t)) ELSE 0

\* the group (\d*\.?\d+): digits, at most one point, a digit at the end
MatchesNumber(t) ==
    /\ Len(t) >= 1
    /\ IsDigit(t[Len(t)])
    /\ Cardinality({i \in 1..Len(t) : t[i] = "."}) <= 1

\* the alternation is leftmost-first: the first alternative that matches at
\* the position wins, and the pattern has no anchor at the end
FirstAlternative(rest) ==
    LET hits == {i \in 1..Len(RE_ALTERNATIVES) : IsPrefix(RE_ALTERNATIVES[i], rest)}
    IN  IF hits = {} THEN 0 ELSE CHOOSE i \in hits : \A j \in hits : i <= j

\* RE.captures(huespec): the two groups, when the pattern matches.
\* The group of the number is followed by a letter, so it is the whole
\* prefix of digits and points.
Captures(t) ==
    LET k    == NumberEnd(t)
        num  == SubSeq(t, 1, k)
        rest == SubSeq(t, k + 1, Len(t))
        alt  == FirstAlternative(rest)
    IN  IF MatchesNumber(num) /\ alt # 0
        THEN [matched |-> TRUE, number |-> num, code |-> RE_ALTERNATIVES[alt]]
        ELSE [matched |-> FALSE, number |-> <<>>, code |-> <<>>]

\* the match on the captured code text
HueCode(code) ==
    CASE code = <<"R">>      -> 0
      [] code = <<"Y", "R">> -> 1
      [] code = <<"Y">>      -> 2
      [] code = <<"G", "Y">> -> 3
      [] code = <<"G">>      -> 4
      [] code = <<"B", "G">> -> 5
      [] code = <<"B">>      -> 6
      [] code = <<"P", "B">> -> 7
      [] code = <<"P">>      -> 8
      [] code = <<"R", "P">> -> 9

huespec_to_point(t) ==
    LET caps       == Captures(t)
        hue_number == ParseF32(caps.number)
        hue_code   == HueCode(caps.code)
    IN  RRem(RAdd(RAdd(R(hue_code * 10), RSub(hue_number, R(5))), R(100)), R(100))

\* MunsellHue::to_degrees
HueToDegrees(h) == RMul(h, <<360, 100>>)

\* a plausible slip: the shift by half a sector is forgotten
DisplayNoShift(h) ==
    LET hn    == RRem(h, R(10))
        index == AsUsize(RDiv(RSub(h, hn), R(10)))
    IN  FormatF2(hn) \o LETTER_CODES[index + 1]

\* impl fmt::Display for MunsellHue
Display(h) ==
    LET hp    == RRem(RAdd(h, R(5)), R(100))
        hn    == RRem(hp, R(10))
        index == AsUsize(RDiv(RSub(hp, hn), R(10)))
    IN  FormatF2(hn) \o LETTER_CODES[index + 1]

-----------------------------------------------------------------------------
(* Circular angle math, src/src/degree.rs.  Angles are whole degrees; cos   *)
(* and sin are read from a table of thousandths, and atan2 returns the     *)
(* whole degree whose direction is nearest.                                 *)

\* cos(k degrees) in thousandths, for k = 0..359
COS_TABLE == <<1000, 1000, 999, 999, 998, 996, 995, 993, 990, 988, 985, 982,
               978, 974, 970, 966, 961, 956, 951, 946, 940, 934, 927, 921,
               914, 906, 899, 891, 883, 875, 866, 857, 848, 839, 829, 819,
               809, 799, 788, 777, 766, 755, 743, 731, 719, 707, 695, 682,
               669, 656, 643, 629, 616, 602, 588, 574, 559, 545, 530, 515,
               500, 485, 469, 454, 438, 423, 407, 391, 375, 358, 342, 326,
               309, 292, 276, 259, 242, 225, 208, 191, 174, 156, 139, 122,
               105, 87, 70, 52, 35, 17, 0, -17, -35, -52, -70, -87,
               -105, -122, -139, -156, -174, -191, -208, -225, -242, -259, -276, -292,
               -309, -326, -342, -358, -375, -391, -407, -423, -438, -454, -469, -485,
               -500, -515, -530, -545, -559, -574, -588, -602, -616, -629, -643, -656,
               -669, -682, -695, -707, -719, -731, -743, -755, -766, -777, -788, -799,
               -809, -819, -829, -839, -848, -857, -866, -875, -883, -891, -899, -906,
               -914, -921, -927, -934, -940, -946, -951, -956, -961, -966, -970, -974,
               -978, -982, -985, -988, -990, -993, -995, -996, -998, -999, -999, -1000,
               -1000, -1000, -999, -999, -998, -996, -995, -993, -990, -988, -985, -982,
               -978, -974, -970, -966, -961, -956, -951, -946, -940, -934, -927, -921,
               -914, -906, -899, -891, -883, -875, -866, -857, -848, -839, -829, -819,
               -809, -799, -788, -777, -766, -755, -743, -731, -719, -707, -695, -682,
               -669, -656, -643, -629, -616, -602, -588, -574, -559, -545, -530, -515,
               -500, -485, -469, -454, -438, -423, -407, -391, -375, -358, -342, -326,
               -309, -292, -276, -259, -242, -225, -208, -191, -174, -156, -139, -122,
               -105, -87, -70, -52, -35, -17, 0, 17, 35, 52, 70, 87,
               105, 122, 139, 156, 174, 191, 208, 225, 242, 259, 276, 292,
               309, 326, 342, 358, 375, 391, 407, 423, 438, 454, 469, 485,
               500, 515, 530, 545, 559, 574, 588, 602, 616, 629, 643, 656,
               669, 682, 695, 707, 719, 731, 743, 755, 766, 777, 788, 799,
               809, 819, 829, 839, 848, 857, 866, 875, 883, 891, 899, 906,
               914, 921, 927, 934, 940, 946, 951, 956, 961, 966, 970, 974,
               978, 982, 985, 988, 990, 993, 995, 996, 998, 999, 999, 1000>>

CosDeg(k) == COS_TABLE[(k % 360) + 1]

SinDeg(k) == CosDeg(k - 90)

\* f32 cos / sin of an angle given in degrees (to_radians().cos())
DegCos(x) == IF IsFinite(x) THEN <<CosDeg(RFloor(x)), 1000>> ELSE NaN

DegSin(x) == IF IsFinite(x) THEN <<SinDeg(RFloor(x)), 1000>> ELSE NaN

\* the direction (y, x) as a pair of coprime integers
Direction(y, x) ==
    IF ~IsFinite(y) \/ ~IsFinite(x)
    THEN <<IF IsFinite(y) THEN 0 ELSE y[1], IF IsFinite(x) THEN 0 ELSE x[1]>>
    ELSE LET g == GCD(y[2], x[2])
             a == y[1] * (x[2] \div g)
             b == x[1] * (y[2] \div g)
             d == GCD(Abs(a), Abs(b))
         IN  IF d = 0 THEN <<0, 0>> ELSE <<a \div d, b \div d>>

\* |dir| * sin(angle of dir - k degrees), in thousandths: positive while k
\* is short of the direction, negative once k is past it
Cross(dir, k) == dir[1] * CosDeg(k) - dir[2] * SinDeg(k)

\* the whole degree nearest to the direction dir, which lies between lo and
\* hi; of two equally near, the one nearer to 0
RECURSIVE NearestAngle(_, _, _)
NearestAngle(dir, lo, hi) ==
    IF hi - lo <= 1
    THEN LET cl == Abs(Cross(dir, lo))
             ch == Abs(Cross(dir, hi))
         IN  IF cl < ch \/ (cl = ch /\ Abs(lo) <= Abs(hi)) THEN lo ELSE hi
    ELSE LET mid == (lo + hi) \div 2
         IN  IF Cross(dir, mid) >= 0
             THEN NearestAngle(dir, mid, hi)
             ELSE NearestAngle(dir, lo, mid)

\* y.atan2(x).to_degrees(), in [-180, 180]: the nearest whole degree of the
\* quadrant the direction lies in
Atan2Deg(y, x) ==
    IF IsNaN(y) \/ IsNaN(x) THEN NaN
    ELSE LET dir   == Direction(y, x)
             first == IF dir[1] >= 0 THEN (IF dir[2] >= 0 THEN 0 ELSE 90)
                      ELSE (IF dir[2] >= 0 THEN -90 ELSE -180)
         IN  IF dir = <<0, 0>> THEN R(0)
             ELSE R(NearestAngle(dir, first, first + 90))

\* a plausible slip: the mean of the two numbers, with no regard to the circle
degree_average_linear(a, b) == RDiv(RAdd(a, b), R(2))

degree_average(a, b) ==
    LET c1   == DegCos(a)
        c2   == DegCos(b)
        s1   == DegSin(a)
        s2   == DegSin(b)
        cavg == RDiv(RAdd(c1, c2), R(2))
        savg == RDiv(RAdd(s1, s2), R(2))
    IN  Atan2Deg(savg, cavg)

degree_diff(a, b) ==
    LET c     == DegCos(RSub(a, b))
        s     == DegSin(RSub(a, b))
        angle == Atan2Deg(s, c)
    IN  IF IsNaN(angle) THEN NaN ELSE <<Abs(angle[1]), angle[2]>>

-----------------------------------------------------------------------------
(* MunsellHue::from_str followed by to_string, on one notation *)

NumChars == {"0", "1", "5", "."}

RECURSIVE TextsOfLen(_)
TextsOfLen(k) ==
    IF k = 0 THEN {<<>>}
    ELSE {<<c>> \o t : c \in NumChars, t \in TextsOfLen(k - 1)}

NumTexts == UNION {TextsOfLen(k) : k \in 1..MaxNumLen}

\* the notations drawn as input: a numeric text followed by a sector code
HueSpecs == {n \o LETTER_CODES[i] : n \in NumTexts, i \in 1..Len(LETTER_CODES)}

\* the state of main() while the hue functions are exercised on their own
HueIdle == huespec = <<>> /\ hue = NoHue /\ shown = <<>> /\ hpc = "idle"

DegreeIdle == f1 = <<>> /\ f2 = <<>> /\ average = <<>> /\ diff = <<>> /\ dpc = "idle"

MainIdle ==
    /\ hues = <<>> /\ chromas = <<>> /\ values = <<>>
    /\ pc = "idle"
    /\ lookup_table = <<>> /\ owner = <<>> /\ decls = <<>> /\ blocks = <<>>
    /\ err = NoError
    /\ acc = <<>> /\ bi = 0 /\ rgbout = <<>> /\ lch = NoColor /\ rgb = <<>>

InitHue ==
    /\ huespec \in HueSpecs
    /\ hue = NoHue
    /\ shown = <<>>
    /\ hpc = "input"
    /\ DegreeIdle
    /\ MainIdle

\* MunsellHue::from_str on a text the pattern matches
FromStr ==
    /\ hpc = "input"
    /\ Captures(huespec).matched
    /\ hue' = huespec_to_point(huespec)
    /\ hpc' = "parsed"
    /\ UNCHANGED <<huespec, shown, dvars, mvars>>

\* RE.captures(huespec).unwrap() on a text the pattern does not match
FromStrPanic ==
    /\ hpc = "input"
    /\ ~Captures(huespec).matched
    /\ hpc' = "panic"
    /\ UNCHANGED <<huespec, hue, shown, dvars, mvars>>

\* to_string(), that is Display, on the parsed hue
to_string ==
    /\ hpc = "parsed"
    /\ shown' = Display(hue)
    /\ hpc' = "shown"
    /\ UNCHANGED <<huespec, hue, dvars, mvars>>

NextHue == FromStr \/ FromStrPanic \/ to_string

SpecHue == InitHue /\ [][NextHue]_vars

-----------------------------------------------------------------------------
(* degree_average and degree_diff on one pair of angles *)

\* the angles handed in are the whole degrees of a circle that are multiples
\* of AngleStep
AngleStep == 5

AngleInputs == {k \in 0..359 : k % AngleStep = 0}

InitDegree ==
    /\ f1 \in {R(k) : k \in AngleInputs}
    /\ f2 \in {R(k) : k \in AngleInputs}
    /\ average = <<>>
    /\ diff = <<>>
    /\ dpc = "input"
    /\ HueIdle
    /\ MainIdle

CallDegreeAverage ==
    /\ dpc = "input"
    /\ average' = degree_average(f1, f2)
    /\ dpc' = "averaged"
    /\ UNCHANGED <<f1, f2, diff, hvars, mvars>>

CallDegreeDiff ==
    /\ dpc = "averaged"
    /\ diff' = degree_diff(f1, f2)
    /\ dpc' = "diffed"
    /\ UNCHANGED <<f1, f2, average, hvars, mvars>>

NextDegree == CallDegreeAverage \/ CallDegreeDiff

SpecDegree == InitDegree /\ [][NextDegree]_vars

-----------------------------------------------------------------------------
(* Inputs of main(): the axis lists and the declarations of the document *)

\* most declarations (range elements) a document holds
MaxDecls == 3

\* buckets of the accumulator table; the source allocates 267
NumBuckets == 2

\* the region ids a declaration may carry: two ids, and a third one on the
\* axes with three hues
ColorIds == IF Len(hues) > 2 THEN {1, 2, 3} ELSE {1, 2}

AxisConfigs ==
    { [hues    |-> << <<"5", "R">>, <<"5", "G">>, <<"5", "R", "P">> >>,
       chromas |-> << <<"0">>, INF >>,
       values  |-> << <<"0">>, INF >>],
      [hues    |-> << <<"5", "R">>, <<"5", "G">> >>,
       chromas |-> << <<"0">>, INF >>,
       values  |-> << <<"0">>, <<"5">>, INF >>],
      [hues    |-> << <<"1", "0", "R">>, <<"5", "Y">> >>,
       chromas |-> << <<"0">>, <<"2">>, INF >>,
       values  |-> << <<"0">>, INF >>] }

\* iter().position(|x| x == label).unwrap(), 0-based
Position(list, label) == (CHOOSE i \in 1..Len(list) : list[i] = label /\
                            \A j \in 1..(i - 1) : list[j] # label) - 1

Decl(color, hb, he, cb, ce, vb, ve) ==
    [color |-> color,
     hue_begin |-> hb, hue_end |-> he,
     chroma_begin |-> cb, chroma_end |-> ce,
     value_begin |-> vb, value_end |-> ve]

\* declarations whose three ranges hold at least one cell; the linear ranges
\* run forward, the hue range may wrap
ProperDecls ==
    LET choices == {t \in ColorIds \X (1..Len(hues)) \X (1..Len(hues))
                          \X (1..Len(chromas)) \X (1..Len(chromas))
                          \X (1..Len(values)) \X (1..Len(values)) :
                      t[2] # t[3] /\ t[4] < t[5] /\ t[6] < t[7]}
    IN  {Decl(t[1], hues[t[2]], hues[t[3]], chromas[t[4]], chromas[t[5]],
              values[t[6]], values[t[7]]) : t \in choices}

\* one declaration with begin = end on an axis: the chroma axis where it has
\* two cells, the hue axis elsewhere
DegenerateDecls ==
    { IF Len(chromas) > 2
      THEN Decl(2, hues[1], hues[2], chromas[1], chromas[1],
                values[1], values[Len(values)])
      ELSE Decl(2, hues[1], hues[1], chromas[1], chromas[Len(chromas)],
                values[1], values[Len(values)]) }

DeclInputs == ProperDecls \cup DegenerateDecls

-----------------------------------------------------------------------------
(* Partition validator, validate_blocks in src/src/main.rs *)

H == Len(hues)
C == Len(chromas) - 1
V == Len(values) - 1

None == -1

\* the closure index(h, c, v): an offset, or None
index(h, c, v) ==
    IF h > Len(hues) THEN None
    ELSE IF c > (Len(chromas) - 1) THEN None
    ELSE IF v > (Len(values) - 1) THEN None
    ELSE (h * (Len(chromas) - 1) * (Len(values) - 1)) + (c * (Len(values) - 1)) + v

\* the declaration's labels resolved to axis indices
Resolve(d) ==
    [color_id |-> d.color,
     hue_begin_index |-> Position(hues, d.hue_begin),
     hue_end_index |-> Position(hues, d.hue_end),
     chroma_begin_index |-> Position(chromas, d.chroma_begin),
     chroma_end_index |-> Position(chromas, d.chroma_end),
     value_begin_index |-> Position(values, d.value_begin),
     value_end_index |-> Position(values, d.value_end)]

\* a plausible slip: the end is taken as it is, wrapped or not
hue_end_index_unwrapped(r) == r.hue_end_index

hue_logical_end_index(r) ==
    IF r.hue_end_index < r.hue_begin_index
    THEN r.hue_end_index + Len(hues)
    ELSE r.hue_end_index

Span(b, e) == IF e > b THEN e - b ELSE 0

\* a plausible slip: the hue index is used without wrapping it
LoopCellsNoWrap(hb, he, cb, ce, vb, ve) ==
    [i \in 1..(Span(hb, he) * Span(cb, ce) * Span(vb, ve)) |->
        <<hb + ((i - 1) \div (Span(cb, ce) * Span(vb, ve))),
          cb + (((i - 1) \div Span(vb, ve)) % Span(cb, ce)),
          vb + ((i - 1) % Span(vb, ve))>>]

\* the cells the three nested loops visit, in the order they visit them
LoopCells(hb, he, cb, ce, vb, ve) ==
    LET nc == Span(cb, ce)
        nv == Span(vb, ve)
    IN  [i \in 1..(Span(hb, he) * nc * nv) |->
            <<(hb + ((i - 1) \div (nc * nv))) % Len(hues),
              cb + (((i - 1) \div nv) % nc),
              vb + ((i - 1) % nv)>>]

ClaimCells(r) ==
    LoopCells(r.hue_begin_index, hue_logical_end_index(r),
              r.chroma_begin_index, r.chroma_end_index,
              r.value_begin_index, r.value_end_index)

\* a plausible slip: the cell is overwritten without looking at it first
RECURSIVE PlaceNoCheck(_, _, _, _, _)
PlaceNoCheck(table, own, cells, color_id, ordinal) ==
    IF cells = <<>> THEN [table |-> table, owner |-> own, err |-> NoError]
    ELSE LET idx == index(cells[1][1], cells[1][2], cells[1][3])
         IN  PlaceNoCheck([table EXCEPT ![idx + 1] = color_id],
                          [own EXCEPT ![idx + 1] = @ \cup {ordinal}],
                          Tail(cells), color_id, ordinal)

\* a plausible slip: a cell holding the declaration's own id passes as free
RECURSIVE PlaceSameIdAllowed(_, _, _, _, _)
PlaceSameIdAllowed(table, own, cells, color_id, ordinal) ==
    IF cells = <<>> THEN [table |-> table, owner |-> own, err |-> NoError]
    ELSE LET h   == cells[1][1]
             c   == cells[1][2]
             v   == cells[1][3]
             idx == index(h, c, v)
         IN  IF table[idx + 1] # 0 /\ table[idx + 1] # color_id
             THEN [table |-> table, owner |-> own,
                   err |-> [kind |-> "overlap", color |-> color_id,
                            over |-> table[idx + 1],
                            h |-> hues[h + 1], c |-> chromas[c + 1],
                            v |-> values[v + 1]]]
             ELSE PlaceSameIdAllowed([table EXCEPT ![idx + 1] = color_id],
                                     [own EXCEPT ![idx + 1] = @ \cup {ordinal}],
                                     Tail(cells), color_id, ordinal)

\* a plausible slip: the cell is written before the conflict is reported
RECURSIVE PlaceThenReport(_, _, _, _, _)
PlaceThenReport(table, own, cells, color_id, ordinal) ==
    IF cells = <<>> THEN [table |-> table, owner |-> own, err |-> NoError]
    ELSE LET h   == cells[1][1]
             c   == cells[1][2]
             v   == cells[1][3]
             idx == index(h, c, v)
         IN  IF table[idx + 1] # 0
             THEN [table |-> [table EXCEPT ![idx + 1] = color_id],
                   owner |-> [own EXCEPT ![idx + 1] = @ \cup {ordinal}],
                   err |-> [kind |-> "overlap", color |-> color_id,
                            over |-> table[idx + 1],
                            h |-> hues[h + 1], c |-> chromas[c + 1],
                            v |-> values[v + 1]]]
             ELSE PlaceThenReport([table EXCEPT ![idx + 1] = color_id],
                                  [own EXCEPT ![idx + 1] = @ \cup {ordinal}],
                                  Tail(cells), color_id, ordinal)

\* the body of the loops: stop at the first cell already claimed, else claim
RECURSIVE Place(_, _, _, _, _)
Place(table, own, cells, color_id, ordinal) ==
    IF cells = <<>> THEN [table |-> table, owner |-> own, err |-> NoError]
    ELSE LET h   == cells[1][1]
             c   == cells[1][2]
             v   == cells[1][3]
             idx == index(h, c, v)
         IN  IF idx = None \/ idx >= Len(table)
             THEN [table |-> table, owner |-> own,
                   err |-> [kind |-> "panic", color |-> color_id, over |-> 0,
                            h |-> <<>>, c |-> <<>>, v |-> <<>>]]
             ELSE IF table[idx + 1] # 0
             THEN [table |-> table, owner |-> own,
                   err |-> [kind |-> "overlap", color |-> color_id,
                            over |-> table[idx + 1],
                            h |-> hues[h + 1], c |-> chromas[c + 1],
                            v |-> values[v + 1]]]
             ELSE Place([table EXCEPT ![idx + 1] = color_id],
                        [own EXCEPT ![idx + 1] = @ \cup {ordinal}],
                        Tail(cells), color_id, ordinal)

\* a plausible slip: the block records the logical end of the hue range
ColorBlockLogicalEnd(r) ==
    [color_id |-> r.color_id,
     hues    |-> [start |-> r.hue_begin_index, end |-> hue_logical_end_index(r)],
     chromas |-> [start |-> r.chroma_begin_index, end |-> r.chroma_end_index],
     values  |-> [start |-> r.value_begin_index, end |-> r.value_end_index]]

ColorBlock(r) ==
    [color_id |-> r.color_id,
     hues    |-> [start |-> r.hue_begin_index, end |-> r.hue_end_index],
     chromas |-> [start |-> r.chroma_begin_index, end |-> r.chroma_end_index],
     values  |-> [start |-> r.value_begin_index, end |-> r.value_end_index]]

\* a plausible slip: the scan stops one chroma index early
ScanCellsShort == LoopCells(0, Len(hues), 0, Len(chromas) - 2, 0, Len(values) - 1)

\* the cells of the final scan, in order
ScanCells == LoopCells(0, Len(hues), 0, Len(chromas) - 1, 0, Len(values) - 1)

\* the first cell of the scan that holds 0, as an error; NoError if there is none
FirstGap(table) ==
    LET cells == ScanCells
        gaps  == {i \in 1..Len(cells) :
                    table[index(cells[i][1], cells[i][2], cells[i][3]) + 1] = 0}
        first == CHOOSE i \in gaps : \A j \in gaps : i <= j
    IN  IF gaps = {} THEN NoError
        ELSE [kind |-> "gap", color |-> 0, over |-> 0,
              h |-> hues[cells[first][1] + 1],
              c |-> chromas[cells[first][2] + 1],
              v |-> values[cells[first][3] + 1]]

Init ==
    /\ HueIdle
    /\ DegreeIdle
    /\ \E cfg \in AxisConfigs :
          /\ hues = cfg.hues
          /\ chromas = cfg.chromas
          /\ values = cfg.values
          /\ lookup_table = [i \in 1..(Len(cfg.hues) * (Len(cfg.chromas) - 1)
                                         * (Len(cfg.values) - 1)) |-> 0]
          /\ owner = [i \in 1..(Len(cfg.hues) * (Len(cfg.chromas) - 1)
                                  * (Len(cfg.values) - 1)) |-> {}]
    /\ pc = "ranges"
    /\ decls = <<>>
    /\ blocks = <<>>
    /\ err = NoError
    /\ acc = <<>>
    /\ bi = 0
    /\ rgbout = <<>>
    /\ lch = NoColor
    /\ rgb = <<>>

\* one range element of the document: its cells are claimed in loop order;
\* at the first cell already claimed the error is printed and the process
\* exits, otherwise the block is pushed
ClaimRange(d) ==
    /\ pc = "ranges"
    /\ Len(decls) < MaxDecls
    /\ LET r   == Resolve(d)
           res == Place(lookup_table, owner, ClaimCells(r), r.color_id, Len(decls) + 1)
       IN  /\ decls' = Append(decls, d)
           /\ lookup_table' = res.table
           /\ owner' = res.owner
           /\ err' = res.err
           /\ IF res.err = NoError
              THEN /\ blocks' = Append(blocks, ColorBlock(r))
                   /\ pc' = "ranges"
              ELSE /\ blocks' = blocks
                   /\ pc' = IF res.err.kind = "panic" THEN "panic" ELSE "exit"
    /\ UNCHANGED <<hvars, dvars, hues, chromas, values, acc, bi, rgbout, lch, rgb>>

\* the document has no further range: every slot is checked, and the blocks
\* are returned when none holds 0
ScanSlots ==
    /\ pc = "ranges"
    /\ LET gap == FirstGap(lookup_table)
       IN  /\ err' = gap
           /\ pc' = IF gap = NoError THEN "validated" ELSE "exit"
    /\ UNCHANGED <<hvars, dvars, hues, chromas, values, lookup_table, owner, decls, blocks,
                   acc, bi, rgbout, lch, rgb>>

-----------------------------------------------------------------------------
(* Mean colour engine, get_mean_colors in src/src/main.rs *)

deinfinite(x) == IF x = INF THEN <<"9", "9", "9", "9">> ELSE x

\* f32::to_degrees: multiplication by 180 / pi, here 57.3
RAD_TO_DEG == <<573, 10>>

F32ToDegrees(x) == RMul(x, RAD_TO_DEG)

ZeroAccumulator == [v |-> R(0), c |-> R(0), hx |-> R(0), hy |-> R(0), volume |-> R(0)]

\* what one block contributes: its volume and its centre
BlockTerms(block) ==
    LET hue_start      == huespec_to_point(hues[block.hues.start + 1])
        hue_end        == huespec_to_point(hues[block.hues.end + 1])
        hue_delta      == degree_diff(HueToDegrees(hue_start), HueToDegrees(hue_end))
        chroma_start_f == ParseF32(chromas[block.chromas.start + 1])
        chroma_end_f   == RMin(ParseF32(deinfinite(chromas[block.chromas.end + 1])), R(16))
        value_start_f  == ParseF32(values[block.values.start + 1])
        value_end_f    == RMin(ParseF32(deinfinite(values[block.values.end + 1])), R(10))
        area_outer     == RDiv(RMul(RMul(chroma_end_f, chroma_end_f),
                                    F32ToDegrees(hue_delta)), R(360))
        area_inner     == RDiv(RMul(RMul(chroma_start_f, chroma_start_f),
                                    F32ToDegrees(hue_delta)), R(360))
        area           == RSub(area_outer, area_inner)
        center_hue     == degree_average(HueToDegrees(hue_start), HueToDegrees(hue_end))
    IN  [hue_delta     |-> hue_delta,
         area          |-> area,
         volume        |-> RMul(area, RSub(value_end_f, value_start_f)),
         center_chroma |-> RDiv(RAdd(chroma_start_f, chroma_end_f), R(2)),
         center_value  |-> RDiv(RAdd(value_start_f, value_end_f), R(2)),
         center_huex   |-> DegCos(center_hue),
         center_huey   |-> DegSin(center_hue)]

\* a plausible slip: the centres are summed without their weight
AddBlockUnweighted(a, t) ==
    [v      |-> RAdd(a.v, t.center_value),
     c      |-> RAdd(a.c, t.center_chroma),
     hx     |-> RAdd(a.hx, t.center_huex),
     hy     |-> RAdd(a.hy, t.center_huey),
     volume |-> RAdd(a.volume, t.volume)]

\* the five += of the loop body
AddBlock(a, t) ==
    [v      |-> RAdd(a.v, RMul(t.center_value, t.volume)),
     c      |-> RAdd(a.c, RMul(t.center_chroma, t.volume)),
     hx     |-> RAdd(a.hx, RMul(t.center_huex, t.volume)),
     hy     |-> RAdd(a.hy, RMul(t.center_huey, t.volume)),
     volume |-> RAdd(a.volume, t.volume)]

\* a plausible slip: the bucket is indexed by the id itself
BucketOfId(color_id) == color_id

\* (block.color_id - 1) as usize
BucketOf(color_id) == color_id - 1

\* a plausible slip: value and chroma change places
MeanColorSwapped(a) ==
    LET angle_degrees == Atan2Deg(RDiv(a.hy, a.volume), RDiv(a.hx, a.volume))
    IN  [hue    |-> RRem(RAdd(RDiv(RMul(angle_degrees, R(100)), R(360)), R(100)), R(100)),
         value  |-> RDiv(a.c, a.volume),
         chroma |-> RDiv(a.v, a.volume)]

\* the averaged Munsell colour of a bucket
MeanColor(a) ==
    LET angle_degrees == Atan2Deg(RDiv(a.hy, a.volume), RDiv(a.hx, a.volume))
    IN  [hue    |-> RRem(RAdd(RDiv(RMul(angle_degrees, R(100)), R(360)), R(100)), R(100)),
         value  |-> RDiv(a.v, a.volume),
         chroma |-> RDiv(a.c, a.volume)]

LABHUE_HUES == <<24, 90, 145, 245, 310, 384>>

\* MunsellColor::to_approximate_lch; the index must stay inside LABHUE_HUES
LchIndex(mun) == AsUsize(RDiv(mun.hue, R(20)))

to_approximate_lch(mun) ==
    LET index_float     == RDiv(mun.hue, R(20))
        idx             == LchIndex(mun)
        index_remainder == RSub(index_float, R(idx))
        lo              == R(LABHUE_HUES[idx + 1])
        hi              == R(LABHUE_HUES[idx + 2])
    IN  [l      |-> RMul(mun.value, R(10)),
         chroma |-> RMul(mun.chroma, R(5)),
         hue    |-> RAdd(lo, RMul(RSub(hi, lo), index_remainder))]

\* Srgb::from_color_unclamped(lch).  The conversion belongs to the palette
\* crate; what is kept of it: a non-finite component makes every channel
\* NaN, zero chroma gives the grey of the lightness, and the channels move
\* apart in proportion to the chroma.
from_color_unclamped(x) ==
    IF ~IsFinite(x.l) \/ ~IsFinite(x.chroma) \/ ~IsFinite(x.hue)
    THEN <<NaN, NaN, NaN>>
    ELSE LET grey   == RDiv(x.l, R(100))
             spread == RDiv(x.chroma, R(156))
         IN  <<RAdd(grey, spread), grey, RSub(grey, spread)>>

\* Srgb::is_within_bounds: every channel in [0, 1]; false for NaN
is_within_bounds(x) ==
    \A k \in 1..3 : RLe(R(0), x[k]) /\ RLe(x[k], R(1))

\* lch.chroma *= 0.99, kept to hundredths
ReduceChroma(x) ==
    IF IsFinite(x) THEN <<RFloor(RMul(RMul(x, <<99, 100>>), R(100))), 100>>
    ELSE RMul(x, <<99, 100>>)

\* get_mean_colors is entered with the validated blocks: the buckets are made
BeginMeanColors ==
    /\ pc = "validated"
    /\ acc' = [i \in 1..NumBuckets |-> ZeroAccumulator]
    /\ bi' = 0
    /\ pc' = "blocks"
    /\ UNCHANGED <<hvars, dvars, hues, chromas, values, lookup_table, owner, decls, blocks,
                   err, rgbout, lch, rgb>>

\* one turn of `for block in blocks`
Accumulate ==
    /\ pc = "blocks"
    /\ bi < Len(blocks)
    /\ LET block == blocks[bi + 1]
           slot  == BucketOf(block.color_id)
       IN  IF slot < 0 \/ slot >= Len(acc)
           THEN /\ pc' = "panic"
                /\ UNCHANGED <<acc, bi>>
           ELSE /\ acc' = [acc EXCEPT ![slot + 1] = AddBlock(@, BlockTerms(block))]
                /\ bi' = bi + 1
                /\ pc' = "blocks"
    /\ UNCHANGED <<hvars, dvars, hues, chromas, values, lookup_table, owner, decls, blocks,
                   err, rgbout, lch, rgb>>

\* the closure of acc.into_iter().map() on the next bucket, up to the loop
FinalizeBucket ==
    /\ pc = "blocks"
    /\ bi = Len(blocks)
    /\ Len(rgbout) < Len(acc)
    /\ LET mun == MeanColor(acc[Len(rgbout) + 1])
       IN  IF LchIndex(mun) + 2 > Len(LABHUE_HUES)
           THEN /\ pc' = "panic"
                /\ UNCHANGED <<lch, rgb>>
           ELSE /\ pc' = "gamut"
                /\ lch' = [bucket |-> Len(rgbout) + 1] @@ to_approximate_lch(mun)
                /\ rgb' = from_color_unclamped(lch')
    /\ UNCHANGED <<hvars, dvars, hues, chromas, values, lookup_table, owner, decls, blocks,
                   err, acc, bi, rgbout>>

\* the loop finds the colour within bounds: break, return rgb
GamutBreak ==
    /\ pc = "gamut"
    /\ is_within_bounds(rgb)
    /\ rgbout' = Append(rgbout, rgb)
    /\ lch' = NoColor
    /\ rgb' = <<>>
    /\ pc' = "blocks"
    /\ UNCHANGED <<hvars, dvars, hues, chromas, values, lookup_table, owner, decls, blocks,
                   err, acc, bi>>

\* the loop finds it out of bounds: the chroma is reduced and it goes round
GamutReduce ==
    /\ pc = "gamut"
    /\ ~is_within_bounds(rgb)
    /\ lch' = [lch EXCEPT !.chroma = ReduceChroma(@)]
    /\ rgb' = from_color_unclamped(lch')
    /\ UNCHANGED <<hvars, dvars, hues, chromas, values, pc, lookup_table, owner, decls,
                   blocks, err, acc, bi, rgbout>>

\* collect() has every bucket's colour: rgbout is returned
ReturnColors ==
    /\ pc = "blocks"
    /\ bi = Len(blocks)
    /\ Len(rgbout) = Len(acc)
    /\ pc' = "done"
    /\ UNCHANGED <<hvars, dvars, hues, chromas, values, lookup_table, owner, decls, blocks,
                   err, acc, bi, rgbout, lch, rgb>>

Next ==
    \/ \E d \in DeclInputs : ClaimRange(d)
    \/ ScanSlots
    \/ BeginMeanColors
    \/ Accumulate
    \/ FinalizeBucket
    \/ GamutBreak
    \/ GamutReduce
    \/ ReturnColors

Spec == Init /\ [][Next]_vars

\* the loop is sequential code that keeps running: while it is in the loop,
\* its next step, the break or the reduction, is taken
FairSpec == Spec /\ WF_vars(GamutBreak \/ GamutReduce)

-----------------------------------------------------------------------------
(* Properties of the hue notation, checked under SpecHue *)

\* the number a notation is written with, and the index of the sector code
\* that follows it (0 when what follows is no sector code)
WrittenNumber(t) == SubSeq(t, 1, NumberEnd(t))

WrittenCode(t) ==
    LET rest == SubSeq(t, NumberEnd(t) + 1, Len(t))
    IN  IF \E i \in 1..Len(LETTER_CODES) : LETTER_CODES[i] = rest
        THEN CHOOSE i \in 1..Len(LETTER_CODES) : LETTER_CODES[i] = rest
        ELSE 0

\* C5: from_str on "<number><code>" yields ((i * 10) + (n - 5) + 100) mod 100
\* for the 0-based index i of the code, a value in [0, 100); a two-letter
\* code counts as its own sector, not as that of its first letter.
C5_FromStrFormula ==
    (hpc \in {"parsed", "shown"} /\ WrittenCode(huespec) # 0) =>
        /\ hue = RRem(RAdd(RAdd(R((WrittenCode(huespec) - 1) * 10),
                                RSub(ParseF32(WrittenNumber(huespec)), R(5))),
                           R(100)), R(100))
        /\ RLe(R(0), hue)
        /\ RLt(hue, R(100))

\* C6, as claimed: the text Display renders for the parsed hue is the text
\* that was parsed.
C6_TextRoundTrip == hpc = "shown" => shown = huespec

\* C6, amended: for a notation whose number lies in [0, 10) and has at most
\* two decimals, Display renders that number with exactly two decimals
\* followed by the sector code from_str captured (5R gives 5.00R); the
\* rendered text parses back to the same hue and is rendered unchanged.
C6_CanonicalRoundTrip ==
    (/\ hpc = "shown"
     /\ Decimals(WrittenNumber(huespec)) <= 2
     /\ RLt(ParseF32(WrittenNumber(huespec)), R(10))) =>
        /\ shown = FormatF2(ParseF32(WrittenNumber(huespec)))
                      \o Captures(huespec).code
        /\ Decimals(WrittenNumber(shown)) = 2
        /\ Captures(shown).matched
        /\ huespec_to_point(shown) = hue
        /\ Display(huespec_to_point(shown)) = shown

C6_Witness ==
    /\ hpc = "shown"
    /\ huespec = <<"5", "R">>
    /\ shown = <<"5", ".", "0", "0", "R">>

-----------------------------------------------------------------------------
(* Properties of validate_blocks *)

AllCells == (0..(H - 1)) \X (0..(C - 1)) \X (0..(V - 1))

\* index of a label in an axis list, 0-based
LabelIndex(list, label) == (CHOOSE i \in 1..Len(list) : list[i] = label) - 1

\* the hue indices of a range that may wrap
HueIndices(b, e) ==
    IF b <= e THEN b..(e - 1) ELSE (b..(H - 1)) \cup (0..(e - 1))

\* the volume a declaration declares: hue range x chroma range x value range
DeclVolume(d) ==
    HueIndices(LabelIndex(hues, d.hue_begin), LabelIndex(hues, d.hue_end))
    \X (LabelIndex(chromas, d.chroma_begin)..(LabelIndex(chromas, d.chroma_end) - 1))
    \X (LabelIndex(values, d.value_begin)..(LabelIndex(values, d.value_end) - 1))

Entry(cell) == lookup_table[(cell[1] * C * V) + (cell[2] * V) + cell[3] + 1]

Claimers(cell) == owner[(cell[1] * C * V) + (cell[2] * V) + cell[3] + 1]

PairwiseDisjoint ==
    \A i, j \in 1..Len(decls) : i < j => DeclVolume(decls[i]) \cap DeclVolume(decls[j]) = {}

Unclaimed == {cell \in AllCells : \A i \in 1..Len(decls) : cell \notin DeclVolume(decls[i])}

\* validate_blocks is running or has just ended: what it leaves (the table,
\* the blocks, the error) is not touched by what main() calls after it
InValidate == pc \in {"ranges", "exit", "validated"}

\* validate_blocks returns its blocks
ValidateReturned == pc = "validated"

\* C1: when validate_blocks returns normally, every cell of the table holds
\* a non-zero id, was claimed by exactly one declaration, and the declared
\* volumes are pairwise disjoint.
C1_FullAndDisjoint ==
    ValidateReturned =>
        /\ \A cell \in AllCells :
              /\ Entry(cell) # 0
              /\ Cardinality(Claimers(cell)) = 1
              /\ \A i \in Claimers(cell) :
                    cell \in DeclVolume(decls[i]) /\ Entry(cell) = decls[i].color
        /\ PairwiseDisjoint

C1_Witness ==
    /\ pc = "validated"
    /\ Len(decls) = 3
    /\ H = 3
    /\ \E i \in 1..3 : Cardinality(DeclVolume(decls[i])) = 2

\* C2: a declaration whose volume holds a cell an earlier declaration
\* claimed (with another id or the same) fails with the overlap error, which
\* names the new id and the id stored in the cell; no blocks are returned.
C2_OverlapReported ==
    LET n       == Len(decls)
        earlier == UNION {DeclVolume(decls[i]) : i \in 1..(n - 1)}
    IN  (InValidate /\ n >= 1 /\ DeclVolume(decls[n]) \cap earlier # {}) =>
           /\ pc = "exit"
           /\ err.kind = "overlap"
           /\ err.color = decls[n].color
           /\ Len(blocks) = n - 1
           /\ \E cell \in DeclVolume(decls[n]) \cap earlier :
                 /\ err.h = hues[cell[1] + 1]
                 /\ err.c = chromas[cell[2] + 1]
                 /\ err.v = values[cell[3] + 1]
                 /\ err.over = Entry(cell)
                 /\ \E i \in 1..(n - 1) :
                       cell \in DeclVolume(decls[i]) /\ decls[i].color = err.over

C2_Witness ==
    /\ pc = "exit"
    /\ err.kind = "overlap"
    /\ err.color = err.over
    /\ Len(decls) = 3

\* the final scan has run
ScanRan == pc \in {"exit", "validated"} /\ err.kind \notin {"overlap", "panic"}

\* C3: when the declarations were processed without overlap and some cell
\* was claimed by none, validation fails with the gap error at an unclaimed
\* coordinate, and no blocks are returned.
C3_GapReported ==
    (ScanRan /\ Unclaimed # {}) =>
        /\ pc = "exit"
        /\ err.kind = "gap"
        /\ \E cell \in Unclaimed :
              /\ err.h = hues[cell[1] + 1]
              /\ err.c = chromas[cell[2] + 1]
              /\ err.v = values[cell[3] + 1]

C3_Witness ==
    /\ pc = "exit"
    /\ err.kind = "gap"
    /\ Len(decls) = 3
    /\ \E i \in 1..3 : DeclVolume(decls[i]) = {}
    /\ Cardinality(Unclaimed) = 1

\* the declarations tile the cell space exactly
Tiles == PairwiseDisjoint /\ Unclaimed = {}

ExpectedBlock(d) ==
    [color_id |-> d.color,
     hues    |-> [start |-> LabelIndex(hues, d.hue_begin),
                  end   |-> LabelIndex(hues, d.hue_end)],
     chromas |-> [start |-> LabelIndex(chromas, d.chroma_begin),
                  end   |-> LabelIndex(chromas, d.chroma_end)],
     values  |-> [start |-> LabelIndex(values, d.value_begin),
                  end   |-> LabelIndex(values, d.value_end)]]

\* C4: declarations that tile the cell space exactly are accepted, and the
\* blocks returned are one per declaration, in document order, each with
\* the declaration's id and its begin and end indices on the three axes.
C4_TilingAccepted ==
    (InValidate /\ Tiles) =>
        /\ pc \notin {"exit"}
        /\ err.kind = "none"
        /\ Len(blocks) = Len(decls)
        /\ \A i \in 1..Len(decls) : blocks[i] = ExpectedBlock(decls[i])

C4_Witness ==
    /\ pc = "validated"
    /\ Tiles
    /\ Len(blocks) = 3
    /\ blocks[1].color_id = blocks[3].color_id
    /\ \E i \in 1..3 : blocks[i].hues.end < blocks[i].hues.start

-----------------------------------------------------------------------------
(* Properties of get_mean_colors *)

\* the blocks of a region id, by their place in the block list
BlocksOf(id) == {k \in 1..Len(blocks) : blocks[k].color_id = id}

MaxId == CHOOSE m \in {blocks[k].color_id : k \in 1..Len(blocks)} :
            \A k \in 1..Len(blocks) : blocks[k].color_id <= m

RECURSIVE VolumeSum(_)
VolumeSum(S) ==
    IF S = {} THEN R(0)
    ELSE LET k == CHOOSE x \in S : TRUE
         IN  RAdd(BlockTerms(blocks[k]).volume, VolumeSum(S \ {k}))

\* sum of centre x volume, the centre being center_value or center_chroma
RECURSIVE MomentSum(_, _)
MomentSum(S, centre) ==
    IF S = {} THEN R(0)
    ELSE LET k == CHOOSE x \in S : TRUE
             t == BlockTerms(blocks[k])
         IN  RAdd(RMul(t[centre], t.volume), MomentSum(S \ {k}, centre))

\* get_mean_colors has ended, with its colours or with a panic
MeanColorsEnded == pc = "done" \/ (pc = "panic" /\ err.kind = "none")

C8_GamutLoopEnds ==
    /\ (pc = "gamut") ~> (pc # "gamut")
    /\ [](\A i \in 1..Len(rgbout) : is_within_bounds(rgbout[i]))

\* C9: a region id whose accumulated volume is zero at finalization is
\* reported as a fatal degenerate-region error before the sums are divided
\* by the volume; the loop is not entered and no colour is produced for it.
C9_DegenerateRegionReported ==
    \A i \in 1..Len(acc) :
        (/\ acc[i].volume = R(0)
         /\ bi = Len(blocks)
         /\ \/ i <= Len(rgbout)
            \/ pc = "gamut" /\ lch.bucket = i) =>
               (pc = "exit" /\ err.kind = "degenerate" /\ err.color = i)

\* the loop over the blocks has ended, no bucket is finalized yet
Accumulated == pc = "blocks" /\ bi = Len(blocks) /\ rgbout = <<>>

\* C10: for a region id made of two blocks with volumes v1, v2 (v1 + v2 # 0)
\* and centre values a, b, the averaged value is (a*v1 + b*v2)/(v1 + v2), in
\* whichever order the two blocks come and whatever other blocks there are;
\* likewise the averaged chroma with the centre chromas.
C10_VolumetricWeighting ==
    Accumulated =>
        \A j, k \in 1..Len(blocks) :
            LET id == blocks[j].color_id
                t1 == BlockTerms(blocks[j])
                t2 == BlockTerms(blocks[k])
                vs == RAdd(t1.volume, t2.volume)
            IN  (j # k /\ BlocksOf(id) = {j, k} /\ vs # R(0)) =>
                    /\ MeanColor(acc[id]).value =
                          RDiv(RAdd(RMul(t1.center_value, t1.volume),
                                    RMul(t2.center_value, t2.volume)), vs)
                    /\ MeanColor(acc[id]).chroma =
                          RDiv(RAdd(RMul(t1.center_chroma, t1.volume),
                                    RMul(t2.center_chroma, t2.volume)), vs)

\* two blocks of one id with different centre values and volumes, after a
\* block of another id
C10_Witness ==
    /\ Accumulated
    /\ Len(blocks) = 3
    /\ blocks[1].color_id # blocks[2].color_id
    /\ blocks[2].color_id = blocks[3].color_id
    /\ BlockTerms(blocks[2]).center_value # BlockTerms(blocks[3]).center_value
    /\ BlockTerms(blocks[2]).volume # BlockTerms(blocks[3]).volume
    /\ BlockTerms(blocks[2]).volume # R(0)
    /\ BlockTerms(blocks[3]).volume # R(0)

-----------------------------------------------------------------------------
(* Properties of the circular angle math, checked under SpecDegree *)

\* the arc from a to b going up, in [0, 360)
ArcUp(a, b) == (b[1] - a[1]) % 360

\* twice the angle midway along the shorter arc between a and b
TwiceMidway(a, b) ==
    IF ArcUp(a, b) < 180 THEN 2 * a[1] + ArcUp(a, b)
    ELSE 2 * a[1] + ArcUp(a, b) - 360

\* x is the angle m2 / 2, modulo 360, to within one degree
NearHalf(x, m2) ==
    /\ IsFinite(x)
    /\ x[2] = 1
    /\ (2 * x[1] - m2) % 720 \in (0..2) \cup (718..719)

Antipodal(a, b) == ArcUp(a, b) = 180

\* the general law of C11: the angle midway along the shorter arc
MidwayLaw ==
    (dpc \in {"averaged", "diffed"} /\ ~Antipodal(f1, f2)) =>
        NearHalf(average, TwiceMidway(f1, f2))

-----------------------------------------------------------------------------
(* Properties of the hue range of a declaration *)

\* the hue indices of the cells the declaration of ordinal n wrote
HuesClaimedBy(n) ==
    {cell[1] : cell \in {x \in AllCells : n \in Claimers(x)}}

\* the hue indices of the cells the loops of declaration d visit, in order
HuesVisited(d) ==
    LET cells == ClaimCells(Resolve(d))
    IN  [i \in 1..Len(cells) |-> cells[i][1]]

\* the hue indices the claim gives for begin index b and end index e
ClaimedHueIndices(b, e) ==
    IF b <= e THEN {h \in 0..(H - 1) : b <= h /\ h < e}
    ELSE {h \in 0..(H - 1) : h >= b \/ h < e}

\* C12: a declaration with hue begin index b and end index e claims cells at
\* exactly the hue indices b..e-1 when b <= e (none when b = e) and at
\* b..H-1 with 0..e-1 when e < b; no cell is visited twice and hue index e
\* is never claimed.
C12_HueRange ==
    (InValidate /\ Len(decls) >= 1) =>
        LET n       == Len(decls)
            d       == decls[n]
            b       == LabelIndex(hues, d.hue_begin)
            e       == LabelIndex(hues, d.hue_end)
            cells   == ClaimCells(Resolve(d))
            visited == HuesVisited(d)
            inner   == d.chroma_begin # d.chroma_end /\ d.value_begin # d.value_end
        IN  /\ {visited[i] : i \in 1..Len(visited)} =
                  (IF inner THEN ClaimedHueIndices(b, e) ELSE {})
            /\ \A i, j \in 1..Len(cells) : i # j => cells[i] # cells[j]
            /\ \A i \in 1..Len(visited) : visited[i] # e /\ visited[i] < H
            /\ HuesClaimedBy(n) \subseteq ClaimedHueIndices(b, e)
            /\ err = NoError => HuesClaimedBy(n) =
                                   (IF inner THEN ClaimedHueIndices(b, e) ELSE {})

\* a wrapped range of two hues has been claimed
C12_Witness ==
    /\ pc = "ranges"
    /\ Len(decls) >= 1
    /\ err = NoError
    /\ LabelIndex(hues, decls[Len(decls)].hue_end)
          < LabelIndex(hues, decls[Len(decls)].hue_begin)
    /\ Cardinality(HuesClaimedBy(Len(decls))) = 2
    /\ 0 \in HuesClaimedBy(Len(decls))

-----------------------------------------------------------------------------
(* Properties of the volume of a block *)

\* the volume the claim gives for a block: hue_delta in degrees over 360,
\* times the difference of the squared chromas, times the value extent
ClaimedVolume(block) ==
    LET hue_delta == degree_diff(HueToDegrees(huespec_to_point(hues[block.hues.start + 1])),
                                 HueToDegrees(huespec_to_point(hues[block.hues.end + 1])))
        cs  == ParseF32(chromas[block.chromas.start + 1])
        ce  == RMin(ParseF32(deinfinite(chromas[block.chromas.end + 1])), R(16))
        vs  == ParseF32(values[block.values.start + 1])
        ve  == RMin(ParseF32(deinfinite(values[block.values.end + 1])), R(10))
        area == RSub(RDiv(RMul(RMul(ce, ce), hue_delta), R(360)),
                     RDiv(RMul(RMul(cs, cs), hue_delta), R(360)))
    IN  RMul(area, RSub(ve, vs))

RECURSIVE ClaimedVolumeSum(_)
ClaimedVolumeSum(S) ==
    IF S = {} THEN R(0)
    ELSE LET k == CHOOSE x \in S : TRUE
         IN  RAdd(ClaimedVolume(blocks[k]), ClaimedVolumeSum(S \ {k}))

\* C13: the volume a block adds to its accumulator is area * (value_end -
\* value_start), with area = chroma_end^2 * hue_delta/360 - chroma_start^2 *
\* hue_delta/360, hue_delta being the circular difference in degrees, in
\* [0, 180], with no other scale factor.
C13_BlockVolume ==
    Accumulated =>
        /\ \A k \in 1..Len(blocks) :
              /\ RLe(R(0), BlockTerms(blocks[k]).hue_delta)
              /\ RLe(BlockTerms(blocks[k]).hue_delta, R(180))
        /\ \A i \in 1..Len(acc) : acc[i].volume = ClaimedVolumeSum(BlocksOf(i))

-----------------------------------------------------------------------------
(* Frame of the occupancy table *)

\* the declaration a step has just read
Processed == decls'[Len(decls')]

\* C14: a cell of the table only changes from 0 to the id of the first
\* declaration that claims it; a cell that holds a non-zero id is never
\* overwritten, and processing a declaration leaves the cells outside its
\* cross product unchanged.
C14_FirstClaimWins ==
    [][\A cell \in AllCells :
          Entry(cell)' # Entry(cell) =>
              /\ Entry(cell) = 0
              /\ Len(decls') = Len(decls) + 1
              /\ cell \in DeclVolume(Processed)
              /\ Entry(cell)' = Processed.color
              /\ \A i \in 1..Len(decls) : cell \notin DeclVolume(decls[i])]_vars

\* a second declaration of another id claimed a cell that was taken: the
\* cell still holds the id of the first, and the conflict is the error
C14_Witness ==
    /\ pc = "exit"
    /\ err.kind = "overlap"
    /\ \E cell \in AllCells :
          \E i \in 1..(Len(decls) - 1) :
              /\ cell \in DeclVolume(decls[i]) \cap DeclVolume(decls[Len(decls)])
              /\ decls[i].color # decls[Len(decls)].color
              /\ Claimers(cell) = {i}
              /\ Entry(cell) = decls[i].color
              /\ err.over = decls[i].color

-----------------------------------------------------------------------------
(* Safety of the table accesses *)

\* the accesses validate_blocks has made or makes next: the cells of the
\* loops of every declaration read so far, and the cells of the final scan
Accesses ==
    UNION {{ClaimCells(Resolve(decls[n]))[i] :
               i \in 1..Len(ClaimCells(Resolve(decls[n])))} : n \in 1..Len(decls)}
    \cup {ScanCells[i] : i \in 1..Len(ScanCells)}

Offset(cell) == (cell[1] * C * V) + (cell[2] * V) + cell[3]

\* C15: every access of the claim loops and of the gap scan has h < H,
\* c < C and v < V; its offset h*C*V + c*V + v is below the table size
\* H*C*V, distinct cells have distinct offsets, and the guards of the
\* closure never fire.
C15_AccessInRange ==
    InValidate =>
        /\ Len(lookup_table) = H * C * V
        /\ \A cell \in Accesses :
              /\ cell[1] >= 0 /\ cell[1] < H
              /\ cell[2] >= 0 /\ cell[2] < C
              /\ cell[3] >= 0 /\ cell[3] < V
              /\ index(cell[1], cell[2], cell[3]) # None
              /\ index(cell[1], cell[2], cell[3]) = Offset(cell)
              /\ Offset(cell) < Len(lookup_table)
        /\ \A x, y \in Accesses : x # y => Offset(x) # Offset(y)
        /\ err.kind # "panic"

\* a wrapped hue range that runs to the closing labels of both other axes
\* was claimed, and the scan went through every cell
C15_Witness ==
    /\ ValidateReturned
    /\ \E n \in 1..Len(decls) :
          /\ LabelIndex(hues, decls[n].hue_end) < LabelIndex(hues, decls[n].hue_begin)
          /\ decls[n].chroma_end = chromas[Len(chromas)]
          /\ decls[n].value_end = values[Len(values)]

=============================================================================
